---- MODULE Spec2Model ----
(***************************************************************************)
(* Model of matrix_e2ee_filter.py: the EncryptedRoomFilter Synapse module  *)
(* (check_event_for_spam, on_create_room) and _patch_room_power_levels.    *)
(*                                                                         *)
(* Python values are modelled as follows.                                  *)
(*   - a dict is a function whose DOMAIN is its set of keys;               *)
(*   - None is the empty function (None and {} are both falsy, and the     *)
(*     code only ever tests them for truthiness);                          *)
(*   - a list is a sequence;                                               *)
(*   - a sender or room_id is a sequence of one-character strings, so that *)
(*     str.split works on the characters;                                  *)
(*   - a user id used as a key of a power-levels document is a string;     *)
(*   - a call's outcome is the name of the exception it raised, or         *)
(*     "returned".                                                         *)
(***************************************************************************)
EXTENDS Integers, Sequences, FiniteSets, TLC

\* ------------------------------------------------------------------ bounds

\* Most colon-separated segments in a generated sender or room_id.
MaxSegs == 3

\* Most events in a generated initial_state list.
MaxEvents == 3

\* Most successive applications of _patch_room_power_levels to its own output.
MaxApply == 2

\* ------------------------------------------------------------ Python values

None == <<>>

Truthy(d) == DOMAIN d # {}

TYPE_ENCRYPTION == "m.room.encryption"

TYPE_POWER_LEVELS == "m.room.power_levels"

\* A list (sequence) contains x: Python's `x in list`.
InList(x, list) == \E i \in DOMAIN list : list[i] = x

\* ------------------------------------------------------------- str.split

COLON == ":"

RECURSIVE FindColon(_, _)
\* Index of the first COLON of s at or after position i; 0 when there is none.
FindColon(s, i) ==
    IF i > Len(s) THEN 0
    ELSE IF s[i] = COLON THEN i
    ELSE FindColon(s, i + 1)

RECURSIVE Split(_, _)
\* s.split(':', maxsplit): at most maxsplit splits, from the left; the last
\* part holds the rest of the string, colons included.
Split(s, maxsplit) ==
    LET i == FindColon(s, 1) IN
    IF maxsplit = 0 \/ i = 0 THEN << s >>
    ELSE << SubSeq(s, 1, i - 1) >> \o Split(SubSeq(s, i + 1, Len(s)), maxsplit - 1)

\* The maxsplit argument of the two split calls of check_event_for_spam.
MAXSPLIT == 2

\* `_, server = parts`: unpacking into two targets needs exactly two parts.
CanUnpack2(parts) == Len(parts) = 2

\* ------------------------------------------------- check_event_for_spam

ALLOW == "False"

NOT_ALLOWED == "Encryption is not allowed"

ERROR_DENIED == "Denied because an error occurred when processing the request"

LOG_NONE == ""

LOG_REQUESTOR == "Denied E2EE for %s / requestor"

LOG_ROOM_SERVER == "Denied E2EE for %s / room server"

LOG_EXCEPTION == "Exception when trying to handle the event: %s"

\* A variant that lets the event through on an exception.
ExceptHandlerFailOpen == [ret |-> ALLOW, log |-> LOG_EXCEPTION]

\* The except clause: every exception of the try block becomes a denial.
ExceptHandler == [ret |-> ERROR_DENIED, log |-> LOG_EXCEPTION]

\* Variants: the room's server tested first; the user's server not tested.
DenyListCheckRoomFirst(user_server, room_server, users_of, rooms_of) ==
    IF InList(room_server, rooms_of) THEN [ret |-> NOT_ALLOWED, log |-> LOG_ROOM_SERVER]
    ELSE IF InList(user_server, users_of) THEN [ret |-> NOT_ALLOWED, log |-> LOG_REQUESTOR]
    ELSE [ret |-> ALLOW, log |-> LOG_NONE]

DenyListCheckRoomOnly(user_server, room_server, users_of, rooms_of) ==
    IF InList(room_server, rooms_of) THEN [ret |-> NOT_ALLOWED, log |-> LOG_ROOM_SERVER]
    ELSE [ret |-> ALLOW, log |-> LOG_NONE]

\* The deny-list tests, the user's server first.
DenyListCheck(user_server, room_server, users_of, rooms_of) ==
    IF InList(user_server, users_of) THEN [ret |-> NOT_ALLOWED, log |-> LOG_REQUESTOR]
    ELSE IF InList(room_server, rooms_of) THEN [ret |-> NOT_ALLOWED, log |-> LOG_ROOM_SERVER]
    ELSE [ret |-> ALLOW, log |-> LOG_NONE]

\* event_dict.get('type', None) == 'm.room.encryption'
IsEncryptionEvent(ev) == "type" \in DOMAIN ev /\ ev["type"] = TYPE_ENCRYPTION

\* The body of the if statement: parse both identifiers, then test the lists.
HandleEncryptionEvent(ev, users_of, rooms_of) ==
    IF "sender" \notin DOMAIN ev THEN ExceptHandler                      \* KeyError
    ELSE LET sparts == Split(ev["sender"], MAXSPLIT) IN
    IF ~CanUnpack2(sparts) THEN ExceptHandler                            \* ValueError
    ELSE IF "room_id" \notin DOMAIN ev THEN ExceptHandler                \* KeyError
    ELSE LET rparts == Split(ev["room_id"], MAXSPLIT) IN
    IF ~CanUnpack2(rparts) THEN ExceptHandler                            \* ValueError
    ELSE DenyListCheck(sparts[2], rparts[2], users_of, rooms_of)

\* A variant that parses the identifiers of every event, whatever its type.
check_event_for_spam_AnyType(ev, users_of, rooms_of) ==
    LET r == HandleEncryptionEvent(ev, users_of, rooms_of) IN
    IF IsEncryptionEvent(ev) \/ r.ret = ERROR_DENIED THEN r
    ELSE [ret |-> ALLOW, log |-> LOG_NONE]

check_event_for_spam(ev, users_of, rooms_of) ==
    IF IsEncryptionEvent(ev)
    THEN HandleEncryptionEvent(ev, users_of, rooms_of)
    ELSE [ret |-> ALLOW, log |-> LOG_NONE]

\* ---------------------------------------------- _patch_room_power_levels

\* d[k] = v on a dict.
DictSet(d, k, v) == [x \in (DOMAIN d) \cup {k} |-> IF x = k THEN v ELSE d[x]]

RETURNED == "returned"

DEFAULT_EVENT_ACL ==
    [x \in {"m.room.name", "m.room.power_levels", "m.room.history_visibility",
            "m.room.canonical_alias", "m.room.avatar", "m.room.tombstone",
            "m.room.server_acl", "m.room.encryption"} |->
        IF x \in {"m.room.name", "m.room.canonical_alias", "m.room.avatar"}
        THEN 50 ELSE 100]

\* The event generated when the seed is None, empty or has no content.
DefaultPowerLevels(requester_user_id) ==
    [type |-> TYPE_POWER_LEVELS,
     sender |-> requester_user_id,
     content |-> [users |-> (requester_user_id :> 100),
                  users_default |-> 0,
                  events |-> DEFAULT_EVENT_ACL,
                  events_default |-> 0,
                  state_default |-> 50,
                  ban |-> 50,
                  kick |-> 50,
                  redact |-> 50,
                  invite |-> 0,
                  historical |-> 100]]

\* `not room_power_levels or 'content' not in room_power_levels`
NeedsDefault(room_power_levels) ==
    ~Truthy(room_power_levels) \/ "content" \notin DOMAIN room_power_levels

\* max(values) of a non-empty dict of integers.
MaxValue(d) == CHOOSE m \in {d[k] : k \in DOMAIN d} : \A k \in DOMAIN d : d[k] <= m

\* A variant that adds the margin to the level already asked for.
EncLevelFromPrevious(content) ==
    IF "events" \in DOMAIN content /\ TYPE_ENCRYPTION \in DOMAIN content["events"]
    THEN content["events"][TYPE_ENCRYPTION] + 50
    ELSE MaxValue(content["users"]) + 50

\* enc_power_level when content has a users mapping (max of an empty
\* sequence is a ValueError, decided by the caller).
EncLevelFromUsers(content) == MaxValue(content["users"]) + 50

\* enc_power_level when content has no users mapping.
ENC_LEVEL_NO_USERS == 150

\* Lines 62-77 on a document that has a content.
PatchContent(room_power_levels, requester_user_id) ==
    LET content == room_power_levels["content"] IN
    IF "users" \in DOMAIN content /\ DOMAIN content["users"] = {}
    THEN [raised |-> "ValueError", value |-> room_power_levels]
    ELSE
      LET hasUsers == "users" \in DOMAIN content
          c1 == IF hasUsers THEN content
                ELSE DictSet(content, "users", (requester_user_id :> 100))
          enc_power_level == IF hasUsers THEN EncLevelFromUsers(content)
                             ELSE ENC_LEVEL_NO_USERS
          c2 == IF "events" \in DOMAIN c1 THEN c1
                ELSE DictSet(c1, "events", DEFAULT_EVENT_ACL)
          c3 == DictSet(c2, "events",
                        DictSet(c2["events"], TYPE_ENCRYPTION, enc_power_level))
      IN [raised |-> RETURNED, value |-> DictSet(room_power_levels, "content", c3)]

_patch_room_power_levels(room_power_levels, requester_user_id) ==
    PatchContent(IF NeedsDefault(room_power_levels)
                 THEN DefaultPowerLevels(requester_user_id)
                 ELSE room_power_levels,
                 requester_user_id)

\* ------------------------------------------------------- on_create_room

\* A variant that reads the type with event.get('type').
EventTypeGet(event) ==
    IF "type" \in DOMAIN event
    THEN [raised |-> RETURNED, value |-> event["type"]]
    ELSE [raised |-> RETURNED, value |-> "None"]

\* event['type'] of the loop: a KeyError when the event has no type.
EventType(event) ==
    IF "type" \in DOMAIN event
    THEN [raised |-> RETURNED, value |-> event["type"]]
    ELSE [raised |-> "KeyError", value |-> "None"]

\* A variant that strips the power-levels events only.
IsStrippedPowerLevelsOnly(type) == type = TYPE_POWER_LEVELS

\* `event['type'] in ['m.room.encryption', 'm.room.power_levels']`
IsStripped(type) == type \in {TYPE_ENCRYPTION, TYPE_POWER_LEVELS}

RECURSIVE FilterLoop(_, _, _, _)
\* The for loop, from its i-th iteration on.
FilterLoop(events, i, filtered_initial_state, initial_power_levels) ==
    IF i > Len(events)
    THEN [raised |-> RETURNED,
          filtered_initial_state |-> filtered_initial_state,
          initial_power_levels |-> initial_power_levels]
    ELSE
      LET event == events[i]
          t == EventType(event)
      IN IF t.raised # RETURNED
         THEN [raised |-> t.raised,
               filtered_initial_state |-> filtered_initial_state,
               initial_power_levels |-> initial_power_levels]
         ELSE IF IsStripped(t.value)
         THEN FilterLoop(events, i + 1, filtered_initial_state,
                         IF t.value = TYPE_POWER_LEVELS THEN event
                         ELSE initial_power_levels)
         ELSE FilterLoop(events, i + 1, Append(filtered_initial_state, event),
                         initial_power_levels)

\* A variant that puts the power-levels event first.
InjectPowerLevelsFirst(filtered_initial_state, initial_power_levels) ==
    IF Truthy(initial_power_levels)
    THEN << initial_power_levels >> \o filtered_initial_state
    ELSE filtered_initial_state

\* `if initial_power_levels: filtered_initial_state.append(initial_power_levels)`
InjectPowerLevels(filtered_initial_state, initial_power_levels) ==
    IF Truthy(initial_power_levels)
    THEN Append(filtered_initial_state, initial_power_levels)
    ELSE filtered_initial_state

\* `if self.patch_power_levels:` the synthesizer runs, else the seed is kept.
MaybePatch(patch, initial_power_levels, user_id) ==
    IF patch
    THEN _patch_room_power_levels(initial_power_levels, user_id)
    ELSE [raised |-> RETURNED, value |-> initial_power_levels]

\* request_content.get('initial_state', [])
GetInitialState(content) ==
    IF "initial_state" \in DOMAIN content THEN content["initial_state"] ELSE << >>

\* The whole handler: the outcome and the request as the call leaves it.
on_create_room(content, user_id, patch) ==
    LET loop == FilterLoop(GetInitialState(content), 1, << >>, None) IN
    IF loop.raised # RETURNED
    THEN [raised |-> loop.raised, request_content |-> content]
    ELSE
      LET p == MaybePatch(patch, loop.initial_power_levels, user_id) IN
      IF p.raised # RETURNED
      THEN [raised |-> p.raised, request_content |-> content]
      ELSE [raised |-> RETURNED,
            request_content |->
                DictSet(content, "initial_state",
                        InjectPowerLevels(loop.filtered_initial_state, p.value))]

\* -------------------------------------------------------------- __init__

\* config.get(key, default)
ConfigGet(config, key, default) ==
    IF key \in DOMAIN config THEN config[key] ELSE default

\* ------------------------------------------------------------- the inputs

\* Colon-free pieces of an identifier (a local part, a host, a port).
Names == {"a", "b"}

RECURSIVE Join(_)
\* ':'.join(segs)
Join(segs) ==
    IF Len(segs) = 1 THEN << segs[1] >>
    ELSE << segs[1], COLON >> \o Join(Tail(segs))

\* The identifiers: "a", "a:b", "a:b:a", ... up to MaxSegs segments.
Ids == { Join(segs) : segs \in UNION { [1..n -> Names] : n \in 1..MaxSegs } }

\* A plain host and a host with a port.
HOST_B == << "b" >>

HOST_B_PORT_A == << "b", ":", "a" >>

DenyLists == { << >>, << HOST_B >>, << HOST_B, HOST_B_PORT_A >> }

\* The module configurations: every key is optional.
Configs ==
    { [k \in keys |->
          CASE k = "deny_encryption_for_users_of" -> u
            [] k = "deny_encryption_for_rooms_of" -> r
            [] k = "patch_power_levels" -> p] :
      keys \in SUBSET {"deny_encryption_for_users_of", "deny_encryption_for_rooms_of",
                       "patch_power_levels"},
      u \in DenyLists, r \in DenyLists, p \in BOOLEAN }

\* The events a host submits to check_event_for_spam: each key is optional.
EventTypes == {TYPE_ENCRYPTION, "m.room.name"}

EventDicts ==
    { [k \in keys |->
          CASE k = "type" -> t
            [] k = "sender" -> sd
            [] k = "room_id" -> rm] :
      keys \in SUBSET {"type", "sender", "room_id"},
      t \in EventTypes, sd \in Ids, rm \in Ids }

ALICE == "@alice:x"

BOB == "@bob:y"

CAROL == "@carol:x"

Requesters == {ALICE, BOB}

\* User-supplied power-levels events.
PL_NO_CONTENT == [type |-> TYPE_POWER_LEVELS]

PL_CO_OWNERS ==
    [type |-> TYPE_POWER_LEVELS,
     content |-> [users |-> (ALICE :> 100) @@ (CAROL :> 150),
                  events |-> (TYPE_ENCRYPTION :> 0)]]

PL_EMPTY_USERS == [type |-> TYPE_POWER_LEVELS, content |-> [users |-> << >>]]

PL_NO_USERS == [type |-> TYPE_POWER_LEVELS, content |-> [ban |-> 50]]

PL_SINGLE_OWNER ==
    [type |-> TYPE_POWER_LEVELS,
     content |-> [users |-> (ALICE :> 100), events |-> ("m.room.name" :> 50)]]

PL_CREATOR_UNLISTED ==
    [type |-> TYPE_POWER_LEVELS,
     content |-> [users |-> (CAROL :> 10), users_default |-> 100]]

PL_NEGATIVE ==
    [type |-> TYPE_POWER_LEVELS,
     content |-> [users |-> (CAROL :> -60), events |-> << >>]]

SuppliedPowerLevels ==
    {PL_NO_CONTENT, PL_CO_OWNERS, PL_EMPTY_USERS, PL_NO_USERS, PL_CREATOR_UNLISTED}

EV_NAME == [type |-> "m.room.name"]

EV_TOPIC == [type |-> "m.room.topic"]

EV_ENCRYPTION == [type |-> TYPE_ENCRYPTION]

EV_NO_TYPE == [state_key |-> ""]

\* The events of an initial_state.
StateEvents == {EV_NAME, EV_TOPIC, EV_ENCRYPTION, EV_NO_TYPE} \cup SuppliedPowerLevels

\* The room-creation requests: initial_state is optional.
Requests ==
    { [name |-> "room"] } \cup
    { [name |-> "room", initial_state |-> st] :
      st \in UNION { [1..n -> StateEvents] : n \in 0..MaxEvents } }

\* The seeds of a direct call of the synthesizer.
Seeds ==
    {None, PL_SINGLE_OWNER, PL_NEGATIVE} \cup SuppliedPowerLevels

\* ------------------------------------------------------- the state machine

VARIABLES
    deny_user_servers,   \* self.deny_user_servers
    deny_room_servers,   \* self.deny_room_servers
    patch_power_levels,  \* self.patch_power_levels
    pc,                  \* the call in progress, "idle" or "done"
    event_dict,          \* the event given to check_event_for_spam
    verdict,             \* what check_event_for_spam returned
    log,                 \* the warning check_event_for_spam logged
    requester,           \* requester.user.to_string() / requester_user_id
    request_content,     \* the request dict on_create_room rewrites
    request_before,      \* the request as the host passed it
    raised,              \* the outcome of the last call
    room_power_levels,   \* the document of a direct synthesizer call
    outputs              \* the documents the synthesizer returned, in order

vars == << deny_user_servers, deny_room_servers, patch_power_levels, pc,
           event_dict, verdict, log, requester, request_content,
           request_before, raised, room_power_levels, outputs >>

self == << deny_user_servers, deny_room_servers, patch_power_levels >>

NO_VERDICT == "None"

NO_OUTCOME == "None"

\* No call in progress.
Idle ==
    /\ pc = "idle"
    /\ event_dict = None
    /\ verdict = NO_VERDICT
    /\ log = LOG_NONE
    /\ requester = ""
    /\ request_content = None
    /\ request_before = None
    /\ raised = NO_OUTCOME
    /\ room_power_levels = None
    /\ outputs = << >>

\* EncryptedRoomFilter.__init__
Init ==
    /\ \E config \in Configs :
          /\ deny_user_servers = ConfigGet(config, "deny_encryption_for_users_of", << >>)
          /\ deny_room_servers = ConfigGet(config, "deny_encryption_for_rooms_of", << >>)
          /\ patch_power_levels = ConfigGet(config, "patch_power_levels", FALSE)
    /\ Idle

\* The host has an event to check.
SubmitEvent ==
    /\ pc = "idle"
    /\ \E ev \in EventDicts : event_dict' = ev
    /\ pc' = "check_event_for_spam"
    /\ UNCHANGED << self, verdict, log, requester, request_content,
                    request_before, raised, room_power_levels, outputs >>

CheckEventForSpam ==
    /\ pc = "check_event_for_spam"
    /\ LET r == check_event_for_spam(event_dict, deny_user_servers, deny_room_servers)
       IN /\ verdict' = r.ret
          /\ log' = r.log
    /\ raised' = RETURNED
    /\ pc' = "done"
    /\ UNCHANGED << self, event_dict, requester, request_content, request_before,
                    room_power_levels, outputs >>

\* The host is creating a room.
CreateRoom ==
    /\ pc = "idle"
    /\ \E rc \in Requests, u \in Requesters :
          /\ request_content' = rc
          /\ request_before' = rc
          /\ requester' = u
    /\ pc' = "on_create_room"
    /\ UNCHANGED << self, event_dict, verdict, log, raised, room_power_levels, outputs >>

OnCreateRoom ==
    /\ pc = "on_create_room"
    /\ LET r == on_create_room(request_content, requester, patch_power_levels)
       IN /\ raised' = r.raised
          /\ request_content' = r.request_content
    /\ pc' = "done"
    /\ UNCHANGED << self, event_dict, verdict, log, requester, request_before,
                    room_power_levels, outputs >>

\* A caller has a seed for the synthesizer.
CallPatch ==
    /\ pc = "idle"
    /\ \E seed \in Seeds, u \in Requesters :
          /\ room_power_levels' = seed
          /\ requester' = u
    /\ pc' = "_patch_room_power_levels"
    /\ UNCHANGED << self, event_dict, verdict, log, request_content,
                    request_before, raised, outputs >>

\* One application; the returned document is the next call's seed.
PatchRoomPowerLevels ==
    /\ pc = "_patch_room_power_levels"
    /\ LET r == _patch_room_power_levels(room_power_levels, requester)
       IN /\ raised' = r.raised
          /\ IF r.raised = RETURNED
             THEN /\ room_power_levels' = r.value
                  /\ outputs' = Append(outputs, r.value)
                  /\ pc' = IF Len(outputs) + 1 < MaxApply
                           THEN "_patch_room_power_levels" ELSE "done"
             ELSE /\ UNCHANGED << room_power_levels, outputs >>
                  /\ pc' = "done"
    /\ UNCHANGED << self, event_dict, verdict, log, requester, request_content,
                    request_before >>

\* The host is done with the call's result.
Finish ==
    /\ pc = "done"
    /\ pc' = "idle"
    /\ event_dict' = None
    /\ verdict' = NO_VERDICT
    /\ log' = LOG_NONE
    /\ requester' = ""
    /\ request_content' = None
    /\ request_before' = None
    /\ raised' = NO_OUTCOME
    /\ room_power_levels' = None
    /\ outputs' = << >>
    /\ UNCHANGED self

Next ==
    \/ SubmitEvent
    \/ CheckEventForSpam
    \/ CreateRoom
    \/ OnCreateRoom
    \/ CallPatch
    \/ PatchRoomPowerLevels
    \/ Finish

Spec == Init /\ [][Next]_vars

\* ------------------------------------------------- vocabulary of the claims

\* check_event_for_spam has returned for event_dict.
EventChecked == pc = "done" /\ verdict # NO_VERDICT

\* on_create_room has ended (returned or raised) for request_before.
RoomCreateEnded == pc = "done" /\ request_before # None

\* The direct synthesizer calls have ended.
PatchEnded == pc = "done" /\ request_before = None /\ requester # ""

HasKey(d, k) == k \in DOMAIN d

TypeIsEncryption(ev) == HasKey(ev, "type") /\ ev["type"] = TYPE_ENCRYPTION

CountColons(id) == Cardinality({ i \in DOMAIN id : id[i] = COLON })

\* The domain of an identifier: everything after its first colon.
AfterFirstColon(id) ==
    LET first == CHOOSE i \in DOMAIN id :
                     id[i] = COLON /\ \A j \in 1..(i - 1) : id[j] # COLON
    IN [ k \in 1..(Len(id) - first) |-> id[first + k] ]

\* The identifier has a local part and a domain.
Splittable(id) == CountColons(id) >= 1

Denies(v) == v \in {NOT_ALLOWED, ERROR_DENIED}

\* C1: an m.room.encryption event whose sender's domain is on the user
\* deny-list is denied (the call returns a reason string, never False),
\* whatever the room_id is: denied, not denied, missing or malformed.
C1_DeniedUserAlwaysDenied ==
    ( /\ EventChecked
      /\ TypeIsEncryption(event_dict)
      /\ HasKey(event_dict, "sender")
      /\ Splittable(event_dict["sender"])
      /\ InList(AfterFirstColon(event_dict["sender"]), deny_user_servers) )
    => Denies(verdict)

\* C1 witness: a denied sender domain, no room_id at all, and a denial.
C1_Witness ==
    /\ EventChecked
    /\ TypeIsEncryption(event_dict)
    /\ HasKey(event_dict, "sender")
    /\ event_dict["sender"] = << "a", ":", "b" >>
    /\ InList(HOST_B, deny_user_servers)
    /\ ~HasKey(event_dict, "room_id")
    /\ Denies(verdict)

\* Both identifiers are present.
BothPresent(ev) == HasKey(ev, "sender") /\ HasKey(ev, "room_id")

\* Both identifiers are present and hold exactly one colon each.
BothOneColon(ev) ==
    /\ BothPresent(ev)
    /\ CountColons(ev["sender"]) = 1
    /\ CountColons(ev["room_id"]) = 1

\* The reasons the code returns on a user-list match and on a room-list match.
UserMatchReason == DenyListCheck(HOST_B, HOST_B, << HOST_B >>, << >>).ret

RoomMatchReason == DenyListCheck(HOST_B, HOST_B, << >>, << HOST_B >>).ret

C3_OtherTypesAllowed ==
    (EventChecked /\ ~TypeIsEncryption(event_dict)) => verdict = ALLOW

\* C3 witness: an m.room.name event from a denied domain, without room_id.
C3_Witness ==
    /\ EventChecked
    /\ HasKey(event_dict, "type")
    /\ event_dict["type"] = "m.room.name"
    /\ HasKey(event_dict, "sender")
    /\ event_dict["sender"] = << "a", ":", "b" >>
    /\ InList(HOST_B, deny_user_servers)
    /\ ~HasKey(event_dict, "room_id")
    /\ verdict = ALLOW

\* C4: an m.room.encryption event with no sender, no room_id, or a sender or
\* room_id without a colon is denied with the processing-error reason, for
\* every deny-list configuration, and the call returns (nothing is raised).
C4_FailClosed ==
    ( /\ EventChecked
      /\ TypeIsEncryption(event_dict)
      /\ \/ ~HasKey(event_dict, "sender")
         \/ ~HasKey(event_dict, "room_id")
         \/ ~Splittable(event_dict["sender"])
         \/ ~Splittable(event_dict["room_id"]) )
    => (verdict = ERROR_DENIED /\ raised = RETURNED)

\* C4 witness: empty deny-lists, a sender without a colon, and the denial.
C4_Witness ==
    /\ EventChecked
    /\ TypeIsEncryption(event_dict)
    /\ deny_user_servers = << >>
    /\ deny_room_servers = << >>
    /\ HasKey(event_dict, "sender")
    /\ ~Splittable(event_dict["sender"])
    /\ HasKey(event_dict, "room_id")
    /\ verdict = ERROR_DENIED

\* C5 as stated: the domain is everything after the first colon, so an
\* encryption event whose sender and room_id both have a domain (with or
\* without a port) that is on neither deny-list is allowed.
C5_Claim ==
    ( /\ EventChecked
      /\ TypeIsEncryption(event_dict)
      /\ BothPresent(event_dict)
      /\ Splittable(event_dict["sender"])
      /\ Splittable(event_dict["room_id"])
      /\ ~InList(AfterFirstColon(event_dict["sender"]), deny_user_servers)
      /\ ~InList(AfterFirstColon(event_dict["room_id"]), deny_room_servers) )
    => verdict = ALLOW

\* The initial_state the host passed, and the one the call left.
StateBefore == GetInitialState(request_before)

StateAfter == GetInitialState(request_content)

AllTyped(events) == \A i \in DOMAIN events : HasKey(events[i], "type")

IsPowerLevels(event) == event["type"] = TYPE_POWER_LEVELS

NotPowerLevels(event) == event["type"] # TYPE_POWER_LEVELS

NotRemoved(event) == event["type"] \notin {TYPE_ENCRYPTION, TYPE_POWER_LEVELS}

\* The events left that are not power-levels events are the input events that
\* are neither m.room.encryption nor m.room.power_levels, once each and in
\* their input order, and no m.room.encryption event is left.
KeptInOrder ==
    /\ HasKey(request_content, "initial_state")
    /\ AllTyped(StateAfter)
    /\ SelectSeq(StateAfter, NotPowerLevels) = SelectSeq(StateBefore, NotRemoved)
    /\ \A i \in DOMAIN StateAfter : StateAfter[i]["type"] # TYPE_ENCRYPTION

\* C6 as stated: for every request whose events all have a type and for every
\* configuration, after on_create_room the events of initial_state that are
\* not power-levels events are exactly the input events that are neither
\* m.room.encryption nor m.room.power_levels, once each and in their input
\* order; no m.room.encryption event is left.
C6_Claim ==
    (RoomCreateEnded /\ AllTyped(StateBefore)) => KeptInOrder

\* C6 for the calls that return: the part of the claim the code keeps.
C6_KeptInOrderWhenReturned ==
    (RoomCreateEnded /\ raised = RETURNED /\ AllTyped(StateBefore)) => KeptInOrder

\* C6, calls that return: two kept events around an encryption event come
\* out in their input order.
C6_ReturnedWitness ==
    /\ RoomCreateEnded
    /\ raised = RETURNED
    /\ Len(StateBefore) >= 3
    /\ SubSeq(StateBefore, Len(StateBefore) - 2, Len(StateBefore))
         = << EV_TOPIC, EV_ENCRYPTION, EV_NAME >>
    /\ SelectSeq(StateAfter, NotPowerLevels) = << EV_TOPIC, EV_NAME >>

\* The last user-supplied power-levels event, None when there is none.
LastSupplied(events) ==
    LET idx == { i \in DOMAIN events : IsPowerLevels(events[i]) } IN
    IF idx = {} THEN None
    ELSE events[CHOOSE i \in idx : \A j \in idx : j <= i]

CountPowerLevels(events) ==
    Cardinality({ i \in DOMAIN events : IsPowerLevels(events[i]) })

EndsWith(events, event) == Len(events) >= 1 /\ events[Len(events)] = event

\* A power-levels document asks more for m.room.encryption than any level
\* of its users mapping.
EncryptionAboveUsers(doc) ==
    /\ HasKey(doc, "content")
    /\ HasKey(doc["content"], "users")
    /\ HasKey(doc["content"], "events")
    /\ HasKey(doc["content"]["events"], TYPE_ENCRYPTION)
    /\ \A u \in DOMAIN doc["content"]["users"] :
          doc["content"]["events"][TYPE_ENCRYPTION] > doc["content"]["users"][u]

\* The level a document gives a user: its users entry, else users_default,
\* else 0.
LevelOf(doc, u) ==
    IF ~HasKey(doc, "content") THEN 0
    ELSE IF HasKey(doc["content"], "users") /\ u \in DOMAIN doc["content"]["users"]
    THEN doc["content"]["users"][u]
    ELSE IF HasKey(doc["content"], "users_default")
    THEN doc["content"]["users_default"]
    ELSE 0

\* The document is the synthesizer's default for a creator: users is
\* {creator: 100} and m.room.encryption needs 150.
FreshFor(doc, u) ==
    /\ HasKey(doc, "content")
    /\ HasKey(doc["content"], "users")
    /\ doc["content"]["users"] = (u :> 100)
    /\ HasKey(doc["content"], "events")
    /\ HasKey(doc["content"]["events"], TYPE_ENCRYPTION)
    /\ doc["content"]["events"][TYPE_ENCRYPTION] = 150

EmptyUsers(seed) ==
    /\ HasKey(seed, "content")
    /\ HasKey(seed["content"], "users")
    /\ DOMAIN seed["content"]["users"] = {}

C8_Claim ==
    PatchEnded
    => /\ raised = RETURNED
       /\ Len(outputs) >= 1
       /\ \A i \in DOMAIN outputs : EncryptionAboveUsers(outputs[i])

\* C9: feeding the synthesizer's output back as its seed, any number of
\* times, returns the first output again; for a document whose users mapping
\* is {creator: 100} the m.room.encryption level stays 150.
C9_Idempotent ==
    \A i \in DOMAIN outputs :
        /\ outputs[i] = outputs[1]
        /\ outputs[1]["content"]["users"] = (requester :> 100)
             => outputs[i]["content"]["events"][TYPE_ENCRYPTION] = 150

\* C9 witness: a second application on a single-owner document, still 150.
C9_Witness ==
    /\ Len(outputs) >= 2
    /\ outputs[1]["content"]["users"] = (requester :> 100)
    /\ outputs[Len(outputs)]["content"]["events"][TYPE_ENCRYPTION] = 150

\* C10: when an event of the request's initial_state has no type,
\* on_create_room ends in a raised KeyError and the request is exactly as
\* the host passed it, wherever the event is and whatever the configuration.
C10_MissingTypeRaises ==
    (RoomCreateEnded /\ ~AllTyped(StateBefore))
    => /\ raised = "KeyError"
       /\ request_content = request_before

\* C10 witness: the untyped event comes after an encryption event and a
\* power-levels event, patching is on, and the call has raised.
C10_Witness ==
    /\ RoomCreateEnded
    /\ patch_power_levels
    /\ Len(StateBefore) >= 3
    /\ StateBefore[1] = EV_ENCRYPTION
    /\ StateBefore[2] = PL_CO_OWNERS
    /\ StateBefore[3] = EV_NO_TYPE
    /\ raised = "KeyError"
    /\ request_content = request_before

====
